---- MODULE Spec2Model ----
(***************************************************************************)
(* A model of grepr (src/src/lib.rs): find_files, find_lines, open and run. *)
(* Text is a sequence of one-character strings; a path, an error message    *)
(* and a fixed piece of format text are each one token.                     *)
(***************************************************************************)
EXTENDS Integers, Sequences, FiniteSets, TLC

VARIABLES config, stdinData, stdinPos, pc, i, results, entries, idx,
          file, matches, k, stdout, stderr, ret

vars == <<config, stdinData, stdinPos, pc, i, results, entries, idx,
          file, matches, k, stdout, stderr, ret>>

(* ------------------------------ bounds --------------------------------- *)

\* longest standard-input stream drawn by Init, in characters
MaxLen == 3
\* longest list of requested paths drawn by Init
MaxFiles == 2

(* ------------------------------- text ---------------------------------- *)

NL == "\n"
\* a point of the stream at which the read fails (an I/O error, or bytes
\* that are not UTF-8)
ERR == "ERR"
Chars == {"a", "b", NL}

Range(s) == {s[n] : n \in DOMAIN s}
Min(S) == CHOOSE x \in S : \A y \in S : x <= y

Streams == UNION {[1..n -> Chars] : n \in 0..MaxLen}

(* ---------------------------- the pattern ------------------------------ *)
(* A compiled pattern is an ordered alternation of branches; a branch is an *)
(* optional look-behind-sensitive assertion followed by a literal:          *)
(*   pre = "none"      lit            pre = "wordb"     \b lit              *)
(*   pre = "start"     ^ lit          pre = "notwordb"  \B lit              *)

Asserts == {"none", "start", "wordb", "notwordb"}
Lits == {<<>>, <<"a">>, <<"a", "b">>}
Branches == [pre : Asserts, lit : Lits]
PlainBranches == [pre : {"none"}, lit : Lits]
Patterns == {<<b>> : b \in Branches}
            \cup {<<b, c>> : b \in Branches, c \in PlainBranches}

\* \w
IsWord(c) == c \in {"a", "b"}
WordAt(t, n) == n >= 1 /\ n <= Len(t) /\ IsWord(t[n])

\* the assertion at byte offset s of t (between t[s] and t[s+1])
AssertHolds(pre, t, s) ==
    CASE pre = "none" -> TRUE
      [] pre = "start" -> s = 0
      [] pre = "wordb" -> WordAt(t, s) /= WordAt(t, s + 1)
      [] pre = "notwordb" -> WordAt(t, s) = WordAt(t, s + 1)

BranchMatches(b, t, s) ==
    /\ AssertHolds(b.pre, t, s)
    /\ s + Len(b.lit) <= Len(t)
    /\ SubSeq(t, s + 1, s + Len(b.lit)) = b.lit

MatchStarts(p, t) ==
    {s \in 0..Len(t) : \E n \in DOMAIN p : BranchMatches(p[n], t, s)}

\* Regex::is_match
is_match(p, t) == MatchStarts(p, t) /= {}

NoMatch == [some |-> FALSE, start |-> 0, end |-> 0]

\* Regex::find: the leftmost match, the first branch that matches there
find(p, t) ==
    IF MatchStarts(p, t) = {} THEN NoMatch
    ELSE LET s == Min(MatchStarts(p, t))
             n == Min({m \in DOMAIN p : BranchMatches(p[m], t, s)})
         IN [some |-> TRUE, start |-> s, end |-> s + Len(p[n].lit)]

(* --------------------------- the file system --------------------------- *)

FsPaths == {"f", "g", "h", "dev", "d", "d/f1", "d/s", "d/sub", "d/sub/f2",
            "e", "u", "u/k", "u/locked"}

\* what may be named on the command line
Requested == {"-", "f", "g", "h", "d", "e", "u", "nope", "dev"}

Parent(p) ==
    CASE p \in {"d/f1", "d/s", "d/sub"} -> "d"
      [] p = "d/sub/f2" -> "d/sub"
      [] p \in {"u/k", "u/locked"} -> "u"
      [] OTHER -> ""

FileType(p) ==
    CASE p \in {"f", "g", "h", "d/f1", "d/sub/f2", "u/k"} -> "file"
      [] p \in {"d", "d/sub", "e", "u", "u/locked"} -> "dir"
      [] p = "d/s" -> "symlink"
      [] OTHER -> "other"

\* a directory whose listing cannot be read
Readable(p) == p /= "u/locked"

\* File::open succeeds
CanOpen(p) == p /= "h"

Content(p) ==
    CASE p = "f" -> <<"a", "b", NL, "b", NL, "b", "a">>
      [] p = "g" -> <<"a", NL, "b", ERR, NL, "a", NL>>
      [] p = "d/f1" -> <<>>
      [] p = "d/sub/f2" -> <<"b", "a", NL>>
      [] p = "u/k" -> <<"a">>
      [] OTHER -> <<>>

NotFound == "No such file or directory (os error 2)"
Denied == "Permission denied (os error 13)"
BadData == "stream did not contain valid UTF-8"

(* ------------------------------ find_files ----------------------------- *)

Ok(p) == [ok |-> TRUE, path |-> p, msg |-> <<>>]
Err(m) == [ok |-> FALSE, path |-> "", msg |-> m]

\* fs::metadata(path) succeeds
MetadataOk(path) == path \in FsPaths

Children(p) == {q \in FsPaths : Parent(q) = p}

\* WalkDir::new(p).into_iter().filter_map(|e| e.ok()).filter(is_file): the
\* sequences of paths the walk can yield. The order in which a directory's
\* entries are listed is the file system's, so every order is an outcome.
\* A directory yields itself (not a file: dropped), then its entries; an
\* unreadable directory yields an error (dropped); symlinks are not followed.
RECURSIVE WalkEntry(_), WalkChildren(_)
WalkEntry(p) ==
    CASE FileType(p) = "file" -> {<<p>>}
      [] FileType(p) = "dir" /\ Readable(p) -> WalkChildren(Children(p))
      [] OTHER -> {<<>>}
WalkChildren(S) ==
    IF S = {} THEN {<<>>}
    ELSE UNION {{a \o b : a \in WalkEntry(c), b \in WalkChildren(S \ {c})} : c \in S}

\* a walk that does not descend below the directory's own entries
WalkFilesShallow(path) ==
    {SelectSeq(w, LAMBDA q : Parent(q) = path) : w \in WalkEntry(path)}

\* lines 113-119
WalkFiles(path) == WalkEntry(path)

\* a directory is walked whether or not recursive was asked for
DirOutcomesAlwaysWalk(path, recursive) ==
    {[n \in 1..Len(w) |-> Ok(w[n])] : w \in WalkFiles(path)}

\* lines 111-122: the outcomes pushed for a directory
DirOutcomes(path, recursive) ==
    IF recursive
    THEN {[n \in 1..Len(w) |-> Ok(w[n])] : w \in WalkFiles(path)}
    ELSE {<<Err(<<path, " is a directory">>)>>}

\* lines 107-129: the sequences of outcomes one requested path can push
Outcomes(path, recursive) ==
    IF path = "-" THEN {<<Ok(path)>>}
    ELSE IF ~MetadataOk(path) THEN {<<Err(<<path, ": ", NotFound>>)>>}
    ELSE IF FileType(path) = "dir" THEN DirOutcomes(path, recursive)
    ELSE IF FileType(path) = "file" THEN {<<Ok(path)>>}
    ELSE {<<>>}

(* ------------------------------ find_lines ----------------------------- *)

\* the offset just after the line that starts at pos
LineEnd(data, pos) ==
    LET nls == {n \in pos + 1..Len(data) : data[n] = NL}
    IN IF nls = {} THEN Len(data) ELSE Min(nls)

\* BufRead::read_line into an empty buffer
read_line(f) ==
    IF f.pos = Len(f.data)
    THEN [err |-> FALSE, bytes |-> 0, line |-> <<>>, pos |-> f.pos]
    ELSE LET e == LineEnd(f.data, f.pos)
             seg == SubSeq(f.data, f.pos + 1, e)
         IN IF ERR \in Range(seg)
            THEN [err |-> TRUE, bytes |-> 0, line |-> <<>>, pos |-> e]
            ELSE [err |-> FALSE, bytes |-> e - f.pos, line |-> seg, pos |-> e]

\* the selection made on the match alone
LineSelectedNoInvert(pattern, line, invert_match) == is_match(pattern, line)

\* line 192
LineSelected(pattern, line, invert_match) ==
    \/ is_match(pattern, line) /\ ~invert_match
    \/ ~is_match(pattern, line) /\ invert_match

\* a failed read ends the loop and the lines collected so far are returned
OnReadErrorKeep(collected) == [ok |-> TRUE, lines |-> collected]

\* line 188: the ? returns the error and drops the lines collected so far
OnReadError(collected) == [ok |-> FALSE, lines |-> <<>>]

(* --------------------------------- run --------------------------------- *)

\* String::split_off
SplitOff(s, at) == [head |-> SubSeq(s, 1, at), tail |-> SubSeq(s, at + 1, Len(s))]

Panic == [panic |-> TRUE, new_line |-> <<>>, colored_text |-> <<>>, remainder |-> <<>>]

\* the remainder is cut from the whole line at the second lookup's end
HighlightWholeLineEnd(pattern, line) ==
    LET mat == find(pattern, line)
    IN IF ~mat.some THEN Panic
       ELSE LET s1 == SplitOff(line, mat.start)
                mat2 == find(pattern, s1.tail)
            IN IF ~mat2.some THEN Panic
               ELSE [panic |-> FALSE, new_line |-> s1.head,
                     colored_text |-> SplitOff(s1.tail, mat2.end).head,
                     remainder |-> SplitOff(line, mat2.end).tail]

\* lines 231-237: the three parts printed for a selected line; either unwrap
\* panics when its lookup finds nothing
Highlight(pattern, line) ==
    LET mat == find(pattern, line)
    IN IF ~mat.some THEN Panic
       ELSE LET s1 == SplitOff(line, mat.start)
                mat2 == find(pattern, s1.tail)
            IN IF ~mat2.some THEN Panic
               ELSE LET s2 == SplitOff(s1.tail, mat2.end)
                    IN [panic |-> FALSE, new_line |-> s1.head,
                        colored_text |-> s2.head, remainder |-> s2.tail]

\* line 210
num_files == Len(entries)

\* lines 211-217, the print closure: what is written before val
PrintPrefix(fname) == IF num_files > 1 THEN <<fname, ":">> ELSE <<>>

\* lines 239-241
MatchPrefix(fname) == IF num_files > 1 THEN <<fname, ": ">> ELSE <<>>

\* one write to standard output. entry is the index of the outcome being
\* processed; green is the text rendered with the emphasis marker.
Write(kind, prefix, plain, green, rest, n) ==
    [entry |-> idx, kind |-> kind, prefix |-> prefix, plain |-> plain,
     green |-> green, rest |-> rest, count |-> n]

NoFile == [data |-> <<>>, pos |-> 0, stdin |-> FALSE]

(* ------------------------------- Init ---------------------------------- *)

Flags == [recursive : BOOLEAN, count : BOOLEAN, invert_match : BOOLEAN]

Cfg(pattern, files, fl) ==
    [pattern |-> pattern, files |-> files, recursive |-> fl.recursive,
     count |-> fl.count, invert_match |-> fl.invert_match]

FileLists == UNION {[1..n -> Requested] : n \in 1..MaxFiles}

\* grepr PATTERN [-c] [-v] < stream: any pattern over any short stream
InitStdin ==
    /\ \E p \in Patterns, fl \in Flags :
          /\ ~fl.recursive
          /\ config = Cfg(p, <<"-">>, fl)
    /\ stdinData \in Streams

\* grepr a [-r] [-c] [-v] FILE...: any short list of paths of the file system
InitFiles ==
    /\ \E fs \in FileLists, fl \in Flags :
          config = Cfg(<<[pre |-> "none", lit |-> <<"a">>]>>, fs, fl)
    /\ stdinData = <<"a", NL, "b">>

Init ==
    /\ InitStdin \/ InitFiles
    /\ stdinPos = 0
    /\ pc = "find"
    /\ i = 1
    /\ results = <<>>
    /\ entries = <<>>
    /\ idx = 0
    /\ file = NoFile
    /\ matches = <<>>
    /\ k = 0
    /\ stdout = <<>>
    /\ stderr = <<>>
    /\ ret = "none"

(* ------------------------------ actions -------------------------------- *)

\* find_files, one turn of the loop of line 106; after the last path the
\* vector is returned to run (lines 209-210, 218)
FindFiles ==
    /\ pc = "find"
    /\ \E new \in Outcomes(config.files[i], config.recursive) :
          /\ results' = results \o new
          /\ IF i = Len(config.files)
             THEN /\ entries' = results \o new
                  /\ idx' = 1
                  /\ pc' = "loop"
             ELSE UNCHANGED <<entries, idx, pc>>
    /\ i' = i + 1
    /\ UNCHANGED <<config, stdinData, stdinPos, file, matches, k, stdout, stderr, ret>>

\* the first error ends run with that error
ReportAndReturnErr(text) ==
    /\ stderr' = Append(stderr, [entry |-> idx, text |-> text])
    /\ pc' = "done"
    /\ ret' = "Err"
    /\ UNCHANGED idx

\* lines 220, 222, 224: eprintln!, and the for loop goes on to the next entry
ReportAndContinue(text) ==
    /\ stderr' = Append(stderr, [entry |-> idx, text |-> text])
    /\ pc' = "loop"
    /\ ret' = ret
    /\ idx' = idx + 1

AtEntry == pc = "loop" /\ idx <= Len(entries)

\* line 220
ReportFailed ==
    /\ AtEntry
    /\ ~entries[idx].ok
    /\ ReportAndContinue(entries[idx].msg)
    /\ UNCHANGED <<config, stdinData, stdinPos, i, results, entries, file, matches, k, stdout>>

\* lines 201-206 and 222: open fails
OpenFail ==
    /\ AtEntry
    /\ entries[idx].ok
    /\ entries[idx].path /= "-"
    /\ ~CanOpen(entries[idx].path)
    /\ ReportAndContinue(<<entries[idx].path, ": ", Denied>>)
    /\ UNCHANGED <<config, stdinData, stdinPos, i, results, entries, file, matches, k, stdout>>

\* lines 201-206 and 223, 185-186: open succeeds and find_lines starts
OpenOk ==
    /\ AtEntry
    /\ entries[idx].ok
    /\ \/ /\ entries[idx].path = "-"
          /\ file' = [data |-> SubSeq(stdinData, stdinPos + 1, Len(stdinData)),
                      pos |-> 0, stdin |-> TRUE]
       \/ /\ entries[idx].path /= "-"
          /\ CanOpen(entries[idx].path)
          /\ file' = [data |-> Content(entries[idx].path), pos |-> 0, stdin |-> FALSE]
    /\ matches' = <<>>
    /\ pc' = "scan"
    /\ UNCHANGED <<config, stdinData, stdinPos, i, results, entries, idx, k, stdout, stderr, ret>>

Consume(r) == stdinPos' = IF file.stdin THEN stdinPos + (r.pos - file.pos) ELSE stdinPos

\* lines 188-196: a line is read and kept if selected
ScanLine ==
    /\ pc = "scan"
    /\ LET r == read_line(file)
       IN /\ ~r.err
          /\ r.bytes /= 0
          /\ matches' = IF LineSelected(config.pattern, r.line, config.invert_match)
                        THEN Append(matches, r.line)
                        ELSE matches
          /\ file' = [file EXCEPT !.pos = r.pos]
          /\ Consume(r)
    /\ UNCHANGED <<config, stdinData, pc, i, results, entries, idx, k, stdout, stderr, ret>>

\* lines 188-190, 198: end of stream, find_lines returns Ok(matches)
ScanEof ==
    /\ pc = "scan"
    /\ LET r == read_line(file)
       IN ~r.err /\ r.bytes = 0
    /\ pc' = "print"
    /\ k' = 1
    /\ UNCHANGED <<config, stdinData, stdinPos, i, results, entries, idx, file, matches, stdout, stderr, ret>>

\* line 188 and 224: the read fails
ScanError ==
    /\ pc = "scan"
    /\ LET r == read_line(file)
           res == OnReadError(matches)
       IN /\ r.err
          /\ file' = [file EXCEPT !.pos = r.pos]
          /\ Consume(r)
          /\ matches' = res.lines
          /\ IF res.ok
             THEN pc' = "print" /\ k' = 1 /\ UNCHANGED <<idx, stderr, ret>>
             ELSE ReportAndContinue(<<BadData>>) /\ UNCHANGED k
    /\ UNCHANGED <<config, stdinData, i, results, entries, stdout>>

\* lines 226-227
PrintCount ==
    /\ pc = "print"
    /\ config.count
    /\ stdout' = Append(stdout, Write("count", PrintPrefix(entries[idx].path),
                                      <<>>, <<>>, <<NL>>, Len(matches)))
    /\ pc' = "loop"
    /\ idx' = idx + 1
    /\ UNCHANGED <<config, stdinData, stdinPos, i, results, entries, file, matches, k, stderr, ret>>

\* lines 229-247: a selected line is printed with its match emphasized, or
\* the process panics
PrintMatch ==
    /\ pc = "print"
    /\ ~config.count
    /\ k <= Len(matches)
    /\ ~config.invert_match
    /\ LET h == Highlight(config.pattern, matches[k])
       IN IF h.panic
          THEN pc' = "panic" /\ UNCHANGED <<k, stdout>>
          ELSE /\ stdout' = Append(stdout, Write("match", MatchPrefix(entries[idx].path),
                                                 h.new_line, h.colored_text, h.remainder, 0))
               /\ k' = k + 1
               /\ pc' = pc
    /\ UNCHANGED <<config, stdinData, stdinPos, i, results, entries, idx, file, matches, stderr, ret>>

\* lines 229, 248-250
PrintInverted ==
    /\ pc = "print"
    /\ ~config.count
    /\ k <= Len(matches)
    /\ config.invert_match
    /\ stdout' = Append(stdout, Write("line", PrintPrefix(entries[idx].path),
                                      matches[k], <<>>, <<>>, 0))
    /\ k' = k + 1
    /\ UNCHANGED <<config, stdinData, stdinPos, pc, i, results, entries, idx, file, matches, stderr, ret>>

\* line 229: no line is left, the for loop of line 218 goes on
PrintEnd ==
    /\ pc = "print"
    /\ ~config.count
    /\ k > Len(matches)
    /\ pc' = "loop"
    /\ idx' = idx + 1
    /\ UNCHANGED <<config, stdinData, stdinPos, i, results, entries, file, matches, k, stdout, stderr, ret>>

\* line 258
Return ==
    /\ pc = "loop"
    /\ idx > Len(entries)
    /\ pc' = "done"
    /\ ret' = "Ok"
    /\ UNCHANGED <<config, stdinData, stdinPos, i, results, entries, idx, file, matches, k, stdout, stderr>>

Next ==
    \/ FindFiles
    \/ ReportFailed
    \/ OpenFail
    \/ OpenOk
    \/ ScanLine
    \/ ScanEof
    \/ ScanError
    \/ PrintCount
    \/ PrintMatch
    \/ PrintInverted
    \/ PrintEnd
    \/ Return

Spec == Init /\ [][Next]_vars

(* --------------------------- what is expected -------------------------- *)

\* the lines of a stream, each with its terminator
RECURSIVE Lines(_)
Lines(data) ==
    IF data = <<>> THEN <<>>
    ELSE LET e == LineEnd(data, 0)
         IN <<SubSeq(data, 1, e)>> \o Lines(SubSeq(data, e + 1, Len(data)))

\* the lines of the sequence ls that the predicate of the specification selects
Wanted(ls) ==
    SelectSeq(ls, LAMBDA l :
        \/ is_match(config.pattern, l) /\ ~config.invert_match
        \/ ~is_match(config.pattern, l) /\ config.invert_match)

NumResolved == Cardinality({j \in DOMAIN entries : entries[j].ok})

\* the stream the reader of entry j sees: standard input is read to its end
\* by the first entry that names it
SeenBy(j) ==
    IF entries[j].path = "-"
    THEN IF \E m \in 1..j - 1 : entries[m].ok /\ entries[m].path = "-"
         THEN <<>> ELSE stdinData
    ELSE Content(entries[j].path)

Opens(j) == entries[j].ok /\ (entries[j].path = "-" \/ CanOpen(entries[j].path))
ScanFails(j) == Opens(j) /\ ERR \in Range(SeenBy(j))
Scans(j) == Opens(j) /\ ERR \notin Range(SeenBy(j))

WritesOf(j) == SelectSeq(stdout, LAMBDA w : w.entry = j)
ErrorsOf(j) == SelectSeq(stderr, LAMBDA e : e.entry = j)

\* the last write, made for line k - 1 of matches
LastWrite == stdout[Len(stdout)]
Printed == pc = "print" /\ ~config.count /\ k > 1

(* ------------------------------- claims -------------------------------- *)

\* C1: every write to standard output carries a path prefix if and only if
\* more than one outcome of find_files is Resolved; Failed outcomes do not
\* count.
C1_PrefixIffManyResolved ==
    \A n \in DOMAIN stdout : (stdout[n].prefix /= <<>>) <=> (NumResolved > 1)

\* C2: a failed input never stops the run. Every outcome already passed was
\* handled: a file that opens and scans has its whole output on standard
\* output (one count line, or one write per selected line, in order) and no
\* error line; any other outcome has one error line and no output. At the
\* head of the loop and inside find_lines the run always has a next step, and
\* it returns Ok with every outcome passed.
C2_FailuresDoNotStop ==
    /\ pc = "done" => ret = "Ok" /\ idx = Len(entries) + 1
    /\ pc = "loop" => ENABLED (ReportFailed \/ OpenFail \/ OpenOk \/ Return)
    /\ pc = "scan" => ENABLED (ScanLine \/ ScanEof \/ ScanError)
    /\ pc \in {"loop", "done"} =>
          \A j \in 1..idx - 1 :
             IF Scans(j)
             THEN /\ ErrorsOf(j) = <<>>
                  /\ IF config.count
                     THEN /\ Len(WritesOf(j)) = 1
                          /\ WritesOf(j)[1].kind = "count"
                          /\ WritesOf(j)[1].count = Len(Wanted(Lines(SeenBy(j))))
                     ELSE /\ Len(WritesOf(j)) = Len(Wanted(Lines(SeenBy(j))))
                          /\ \A n \in DOMAIN WritesOf(j) :
                                LET w == WritesOf(j)[n]
                                IN w.plain \o w.green \o w.rest
                                      = Wanted(Lines(SeenBy(j)))[n]
             ELSE /\ Len(ErrorsOf(j)) = 1
                  /\ WritesOf(j) = <<>>

\* C2 witness: the run has returned, a scan failure came first and the file
\* after it has its output
C2_Witness ==
    /\ pc = "done"
    /\ ret = "Ok"
    /\ \E j \in DOMAIN entries : \E m \in DOMAIN entries :
          j < m /\ ScanFails(j) /\ Scans(m) /\ Len(WritesOf(m)) >= 2

\* C3: while find_lines scans a stream that reads without error, and when it
\* returns, matches is exactly the lines read so far that satisfy
\* (matched AND NOT invert_match) OR (NOT matched AND invert_match), in
\* stream order, each once and with its terminator; it returns at the end of
\* the stream.
C3_FindLinesSelects ==
    /\ pc \in {"scan", "print"} =>
          matches = Wanted(Lines(SubSeq(file.data, 1, file.pos)))
    /\ pc = "print" => file.pos = Len(file.data)

\* C3 witness: find_lines has returned some but not all of the lines, under
\* invert_match, from a stream whose last line has no terminator
C3_Witness ==
    /\ pc = "print"
    /\ config.invert_match
    /\ Len(matches) >= 1
    /\ Len(matches) < Len(Lines(file.data))
    /\ file.data[Len(file.data)] /= NL

\* C4: the emphasized text of a printed line is line[start:end] for the
\* leftmost match (start, end) of the pattern in the whole line, with
\* line[0:start] before it and line[end:] after it.
C4_EmphasisIsFirstMatch ==
    Printed /\ ~config.invert_match =>
       LET line == matches[k - 1]
           mat == find(config.pattern, line)
       IN /\ LastWrite.plain = SubSeq(line, 1, mat.start)
          /\ LastWrite.green = SubSeq(line, mat.start + 1, mat.end)
          /\ LastWrite.rest = SubSeq(line, mat.end + 1, Len(line))

\* C5: the three parts printed for a line, in order and without the emphasis
\* marker, are the original line, terminator included.
C5_PartsRebuildLine ==
    Printed /\ ~config.invert_match =>
       LastWrite.plain \o LastWrite.green \o LastWrite.rest = matches[k - 1]

\* C5 witness: a line was printed in three non-empty parts, the last ending
\* with the terminator
C5_Witness ==
    /\ Printed
    /\ ~config.invert_match
    /\ LastWrite.plain /= <<>>
    /\ LastWrite.green /= <<>>
    /\ LastWrite.rest /= <<>>
    /\ LastWrite.rest[Len(LastWrite.rest)] = NL

\* the regular files below directory p, at any depth
RECURSIVE IsUnder(_, _)
IsUnder(q, p) == Parent(q) /= "" /\ (Parent(q) = p \/ IsUnder(Parent(q), p))
RegularFilesUnder(p) == {q \in FsPaths : IsUnder(q, p) /\ FileType(q) = "file"}
NoWalkErrors(p) == \A q \in FsPaths : IsUnder(q, p) /\ FileType(q) = "dir" => Readable(q)

\* the outcomes pushed by the step of find_files being taken
Pushed == SubSeq(results', Len(results) + 1, Len(results'))

\* C6: for a requested directory that holds N regular files at any depth and
\* is walked without error, find_files with recursive pushes exactly N
\* outcomes, all Resolved, whose paths are exactly those files.
C6_RecursiveYieldsFiles ==
    [][(/\ pc = "find"
        /\ config.recursive
        /\ MetadataOk(config.files[i])
        /\ FileType(config.files[i]) = "dir"
        /\ NoWalkErrors(config.files[i]))
       => /\ Len(Pushed) = Cardinality(RegularFilesUnder(config.files[i]))
          /\ \A n \in DOMAIN Pushed : Pushed[n].ok
          /\ {Pushed[n].path : n \in DOMAIN Pushed} = RegularFilesUnder(config.files[i])]_vars

\* C6 witness: find_files has returned for the one directory d, which holds a
\* file, a symlink and a directory holding a second file
C6_Witness ==
    /\ pc = "loop"
    /\ config.files = <<"d">>
    /\ config.recursive
    /\ Len(entries) = 2
    /\ {entries[n].path : n \in DOMAIN entries} = {"d/f1", "d/sub/f2"}

\* C7: for a requested path other than "-" whose metadata lookup fails, or
\* that is a directory while recursive is false, find_files pushes exactly one
\* outcome, a Failed one, whose reason is "<path> is a directory" or
\* "<path>: <system error message>".
C7_UnsearchableFails ==
    [][(/\ pc = "find"
        /\ config.files[i] /= "-"
        /\ \/ ~MetadataOk(config.files[i])
           \/ FileType(config.files[i]) = "dir" /\ ~config.recursive)
       => /\ Len(Pushed) = 1
          /\ ~Pushed[1].ok
          /\ Pushed[1].msg[1] = config.files[i]
          /\ MetadataOk(config.files[i])
                => Pushed[1].msg = <<config.files[i], " is a directory">>
          /\ ~MetadataOk(config.files[i])
                => Pushed[1].msg = <<config.files[i], ": ", NotFound>>]_vars

\* C7 witness: find_files has returned one Failed outcome for a directory and
\* one for a path that does not exist
C7_Witness ==
    /\ pc = "loop"
    /\ config.files = <<"d", "nope">>
    /\ ~config.recursive
    /\ Len(entries) = 2
    /\ ~entries[1].ok
    /\ ~entries[2].ok

\* C8: nothing on standard output was written for a file whose scan fails.
C8_FailedScanWritesNothing ==
    \A n \in DOMAIN stdout : ~ScanFails(stdout[n].entry)

\* C8 witness: the scan of g has failed after its first line was selected,
\* the error is reported and standard output is empty
C8_Witness ==
    /\ pc = "loop"
    /\ idx = 2
    /\ entries[1].path = "g"
    /\ ScanFails(1)
    /\ ~config.invert_match
    /\ Len(stderr) = 1
    /\ stdout = <<>>

\* C9: every line on the error channel is "<path>: <error>" or
\* "<path> is a directory", so it names the file it belongs to.
C9_ErrorLinesNameFile ==
    \A n \in DOMAIN stderr :
       LET t == stderr[n].text
       IN /\ Len(t) >= 2
          /\ t[1] \in Requested \cup FsPaths
          /\ t[2] \in {": ", " is a directory"}

\* C10: no lookup made while printing a selected line fails, so run never
\* panics.
C10_NoPanic == pc /= "panic"

====
